---- MODULE Spec2Model ----
(***************************************************************************)
(* Model of the PDF -> PowerPoint conversion pipeline of nano_pdf          *)
(* (ppt_converter.py, ppt_utils.py).                                       *)
(*                                                                         *)
(* The orchestrator PDFToPPTConverter.convert and its two page loops are   *)
(* a state machine; the per-page pipeline is a pure function of the page   *)
(* read from the document and of the conversion options.                   *)
(***************************************************************************)
EXTENDS Integers, Sequences, FiniteSets, TLC

\* ------------------------------------------------------------------------
\* Bounds
\* ------------------------------------------------------------------------
NumPages == 2      \* pages of the input document (pdf_utils.get_page_count)
MaxReq == 2        \* longest list of requested pages
MaxWorkers == 2    \* largest options.max_workers

\* ------------------------------------------------------------------------
\* Sequence helpers
\* ------------------------------------------------------------------------
SeqsUpTo(S, n) == UNION {[1..k -> S] : k \in 0..n}

\* ------------------------------------------------------------------------
\* Recognizer output (the dicts of chart_analysis["charts"])
\* ------------------------------------------------------------------------
\* one series dict: its values, and whether float(v) succeeds on all of them
SeriesInfo(vals, numeric) == [values |-> vals, numeric |-> numeric]

ChartInfo(cats, sers) == [categories |-> cats, series |-> sers]

GoodChart == ChartInfo(<<"Q1", "Q2">>, <<SeriesInfo(<<1, 2>>, TRUE)>>)
NoCategoriesChart == ChartInfo(<<>>, <<SeriesInfo(<<1, 2>>, TRUE)>>)
NoSeriesChart == ChartInfo(<<"Q1", "Q2">>, <<>>)
BadValueChart == ChartInfo(<<"Q1", "Q2">>, <<SeriesInfo(<<1, 2>>, FALSE)>>)
ShortSeriesChart == ChartInfo(<<"Q1", "Q2">>, <<SeriesInfo(<<1>>, TRUE)>>)
LongSeriesChart == ChartInfo(<<"Q1", "Q2">>, <<SeriesInfo(<<1, 2, 3>>, TRUE)>>)

\* ------------------------------------------------------------------------
\* Pages of the document: what the parser, the renderer and the recognizer
\* give for one page.
\*   extract, render : "ok" or "raises" (extract_page_elements,
\*                     pdf_utils.render_page_as_image)
\*   texts, images   : number of text groups / images on the page
\*   drawings        : the vector drawings, "big" or "tiny"
\*   analysis        : ai_utils.analyze_page_for_charts raises, or its charts
\*   regions         : number of chart regions drawn on the page
\* ------------------------------------------------------------------------
Page(ex, re, t, im, dr, araises, charts, regions) ==
    [extract |-> ex, render |-> re, texts |-> t, images |-> im,
     drawings |-> dr, analysis_raises |-> araises, charts |-> charts,
     regions |-> regions]

\* pages used as the orchestrator's inputs
FullPage == Page("ok", "ok", 1, 1, <<"big", "tiny">>, FALSE, <<GoodChart>>, 1)
UnreadablePage == Page("raises", "ok", 0, 0, <<>>, FALSE, <<>>, 0)
UnrenderablePage == Page("ok", "raises", 1, 0, <<>>, FALSE, <<>>, 0)

OrchestratorPageKinds == {FullPage, UnreadablePage, UnrenderablePage}

\* every readable page: all combinations of content and recognizer output
DrawingLists == {<<>>, <<"big">>, <<"tiny">>, <<"big", "tiny">>}

ChartLists ==
    {<<>>, <<GoodChart>>, <<NoCategoriesChart>>, <<NoSeriesChart>>,
     <<BadValueChart>>, <<NoSeriesChart, GoodChart>>, <<ShortSeriesChart>>,
     <<LongSeriesChart>>}

\* a chart region is made of an image or of drawings of the page
Regions(im, dr) == IF im > 0 \/ dr # <<>> THEN 0..1 ELSE {0}

ReadablePages ==
    UNION {{Page("ok", "ok", t, im, dr, FALSE, ch, rg) : rg \in Regions(im, dr)} :
        t \in 0..1, im \in 0..1, dr \in DrawingLists, ch \in ChartLists}
    \cup
    UNION {{Page("ok", "ok", t, im, dr, TRUE, <<>>, rg) : rg \in Regions(im, dr)} :
        t \in 0..1, im \in 0..1, dr \in DrawingLists}

PageKinds == ReadablePages \cup {UnreadablePage, UnrenderablePage}

\* ------------------------------------------------------------------------
\* ConversionOptions
\* ------------------------------------------------------------------------
ConversionOptions(ec, ai, fb, par, mw) ==
    [extract_charts |-> ec, use_ai_extraction |-> ai, fallback_to_image |-> fb,
     parallel_processing |-> par, max_workers |-> mw]

AllOptions ==
    {ConversionOptions(ec, ai, fb, par, mw) :
        ec \in BOOLEAN, ai \in BOOLEAN, fb \in BOOLEAN, par \in BOOLEAN,
        mw \in 1..MaxWorkers}

\* the defaults of the dataclass, in both modes and with every pool size
DefaultOptions ==
    {ConversionOptions(TRUE, TRUE, TRUE, par, mw) :
        par \in BOOLEAN, mw \in 1..MaxWorkers}

\* ------------------------------------------------------------------------
\* State
\* ------------------------------------------------------------------------
VARIABLES
    options,         \* self.options (ConversionOptions)
    doc,             \* the document: doc[p] is page p
    pages_arg,       \* the pages argument of convert(): None or a list
    has_callback,    \* progress_callback is not None
    pc,              \* position of the thread running convert()
    pages,           \* local `pages` of convert()
    tasks,           \* the futures of _convert_pages_parallel, in submit order
    consumed,        \* futures already yielded by as_completed
    results,         \* dict `results` (insertion ordered): <<page, slide>> items
    completed,       \* local `completed` of _convert_pages_parallel
    slides_content,  \* local `slides_content`
    progress,        \* the calls made to progress_callback, in order
    touched,         \* pages the parser or renderer was asked for
    output,          \* what save_presentation wrote
    error,           \* the exception convert() raised, or "none"
    unit             \* a function of the module called on its own: its
                     \* arguments and, once it has returned, its result

vars == <<options, doc, pages_arg, has_callback, pc, pages, tasks, consumed,
          results, completed, slides_content, progress, touched, output, error,
          unit>>

env == <<options, doc, pages_arg, has_callback, unit>>

\* the variables of a conversion, which a function called on its own leaves
conversion ==
    <<options, doc, pages_arg, has_callback, pc, pages, tasks, consumed,
      results, completed, slides_content, progress, touched, output, error>>

\* no function is being called on its own
NoUnit == [fn |-> "none"]

\* ------------------------------------------------------------------------
\* Slide content (ppt_utils.SlideContent)
\* ------------------------------------------------------------------------
SlideContent(p, fb, tb, ch, im, sh) ==
    [page |-> p, fallback |-> fb, text_boxes |-> tb, charts |-> ch,
     images |-> im, shapes |-> sh, tables |-> <<>>]

\* the value of a call that raised: no slide
NoSlide == SlideContent(0, FALSE, <<>>, <<>>, <<>>, <<>>)

Returned(slide) == [raised |-> FALSE, slide |-> slide]
Raised == [raised |-> TRUE, slide |-> NoSlide]

\* create_slide_from_image: one image, the rendered page, and nothing else
create_slide_from_image(p) ==
    SlideContent(p, TRUE, <<>>, <<>>, <<[src |-> "page", id |-> p]>>, <<>>)

\* _create_image_fallback: renders the page, then builds the image slide
\* (a renderer error is not caught in it)
_create_image_fallback(kind, p) ==
    IF kind.render = "raises" THEN Raised
    ELSE Returned(create_slide_from_image(p))

\* ------------------------------------------------------------------------
\* The page pipeline
\* ------------------------------------------------------------------------
\* _parse_ai_chart_data: None (ok = FALSE) when float() raises on a value or
\* when there is no series; the categories are not looked at
_parse_ai_chart_data(chart_info) ==
    [ok |-> /\ \A k \in 1..Len(chart_info.series) : chart_info.series[k].numeric
            /\ chart_info.series # <<>>,
     categories |-> chart_info.categories,
     series |-> [k \in 1..Len(chart_info.series) |-> chart_info.series[k].values]]

\* _detect_and_extract_charts: a ChartElement for every chart_info that
\* parses; an exception of the recognizer ends in no chart at all
_detect_and_extract_charts(kind) ==
    IF kind.analysis_raises THEN <<>>
    ELSE LET parsed == [k \in 1..Len(kind.charts) |->
                          [id |-> k, data |-> _parse_ai_chart_data(kind.charts[k])]]
             accepted == SelectSeq(parsed, LAMBDA c : c.data.ok)
         IN [k \in 1..Len(accepted) |->
               [src |-> "chart", id |-> accepted[k].id,
                categories |-> accepted[k].data.categories,
                series |-> accepted[k].data.series]]

\* _process_text_blocks: one TextBox per group
_process_text_blocks(kind) ==
    [k \in 1..kind.texts |-> [src |-> "text", id |-> k]]

\* _process_images: one ImageElement per image of the page
_process_images(kind) ==
    [k \in 1..kind.images |-> [src |-> "image", id |-> k]]

\* _process_drawings: one ShapeElement per drawing, tiny ones skipped
_process_drawings(kind) ==
    LET all == [k \in 1..Len(kind.drawings) |-> [src |-> "drawing", id |-> k]]
    IN SelectSeq(all, LAMBDA e : kind.drawings[e.id] = "big")

\* slide_content as assembled by _convert_single_page before the test of
\* line 759
Assembled(opts, kind, p) ==
    SlideContent(p, FALSE,
        _process_text_blocks(kind),
        IF opts.extract_charts /\ opts.use_ai_extraction
            THEN _detect_and_extract_charts(kind) ELSE <<>>,
        _process_images(kind),
        _process_drawings(kind))

\* a variant of the test that also looks at the shapes
NoContentOfAnyKind(sc) ==
    /\ sc.text_boxes = <<>>
    /\ sc.charts = <<>>
    /\ sc.images = <<>>
    /\ sc.shapes = <<>>

\* the test of lines 759-762, "no meaningful content": text boxes, charts
\* and images; the shapes are not looked at
NoMeaningfulContent(sc) ==
    /\ sc.text_boxes = <<>>
    /\ sc.charts = <<>>
    /\ sc.images = <<>>

\* _convert_single_page
_convert_single_page(opts, kind, p) ==
    IF kind.extract = "raises" \/ kind.render = "raises" THEN Raised
    ELSE LET sc == Assembled(opts, kind, p)
         IN IF opts.fallback_to_image /\ NoMeaningfulContent(sc)
                THEN _create_image_fallback(kind, p)
                ELSE Returned(sc)

\* one pass of the try/except of the two page loops: the page's slide, or
\* the fallback slide when the pipeline raised; raised when the fallback
\* raised too
ConvertOrFallback(opts, kind, p) ==
    LET r == _convert_single_page(opts, kind, p)
    IN IF r.raised THEN _create_image_fallback(kind, p) ELSE r

\* ------------------------------------------------------------------------
\* create_presentation: the kinds of the elements of one slide, in the order
\* they are added to it
\* ------------------------------------------------------------------------
Kinds(elements, kind) == [k \in 1..Len(elements) |-> kind]

PaintOrder(sc) ==
    Kinds(sc.text_boxes, "text") \o Kinds(sc.charts, "chart")
    \o Kinds(sc.images, "image") \o Kinds(sc.shapes, "shape")
    \o Kinds(sc.tables, "table")

create_presentation(slides) == [k \in 1..Len(slides) |-> PaintOrder(slides[k])]

\* ------------------------------------------------------------------------
\* The dict `results` of _convert_pages_parallel, with its insertion order
\* ------------------------------------------------------------------------
Keys(d) == {d[k].page : k \in 1..Len(d)}

DictGet(d, page) == d[CHOOSE k \in 1..Len(d) : d[k].page = page].slide

DictSet(d, page, slide) ==
    IF page \in Keys(d)
        THEN [k \in 1..Len(d) |->
                IF d[k].page = page THEN [page |-> page, slide |-> slide] ELSE d[k]]
        ELSE Append(d, [page |-> page, slide |-> slide])

\* the slides in the order the dict received them
ResultsInCompletionOrder(d, pgs) == [k \in 1..Len(d) |-> d[k].slide]

\* line 671: [results[p] for p in pages]
ResultsInPageOrder(d, pgs) == [k \in 1..Len(pgs) |-> DictGet(d, pgs[k])]

\* ------------------------------------------------------------------------
\* convert(): validation
\* ------------------------------------------------------------------------
total_pages == Len(doc)

\* a check that lets the page after the last one through
InvalidPagesOffByOne(pgs, total) == SelectSeq(pgs, LAMBDA q : q < 1 \/ q > total + 1)

\* line 578: [p for p in pages if p < 1 or p > total_pages]
InvalidPages(pgs, total) == SelectSeq(pgs, LAMBDA q : q < 1 \/ q > total)

\* ------------------------------------------------------------------------
\* The progress callback: what it is called with, and whether it raises
\* ------------------------------------------------------------------------
Call(count, total, phase) == [count |-> count, total |-> total, phase |-> phase]

\* `if progress_callback: progress_callback(...)`: the log after the call
Notified(log, count, phase) ==
    IF has_callback THEN Append(log, Call(count, Len(pages), phase)) ELSE log

\* the ways one call can end: a callback may raise, an absent one cannot
CallbackRaises == IF has_callback THEN BOOLEAN ELSE {FALSE}

\* a loop that never advances the count
StuckCompleted(c) == c

\* line 666: completed += 1
NextCompleted(c) == c + 1

\* line 688: progress_callback(i, ...), i the index of enumerate(pages)
SequentialCount(i, page) == i

\* ------------------------------------------------------------------------
\* Initial states: a converter has been constructed, convert() is about to
\* be called
\* ------------------------------------------------------------------------
NoneArg == [none |-> TRUE, list |-> <<>>]
ListArg(l) == [none |-> FALSE, list |-> l]

NotStarted ==
    /\ pc = "call"
    /\ pages = <<>>
    /\ tasks = <<>>
    /\ consumed = {}
    /\ results = <<>>
    /\ completed = 0
    /\ slides_content = <<>>
    /\ progress = <<>>
    /\ touched = {}
    /\ output = [written |-> FALSE, slides |-> <<>>]
    /\ error = "none"

\* multi-page documents, any list of requested pages (valid or not)
Init ==
    /\ unit = NoUnit
    /\ options \in DefaultOptions
    /\ doc \in [1..NumPages -> OrchestratorPageKinds]
    /\ pages_arg \in {NoneArg} \cup {ListArg(l) : l \in SeqsUpTo(0..(NumPages + 1), MaxReq)}
    /\ has_callback \in BOOLEAN
    /\ NotStarted

\* one-page documents, every kind of page and every combination of options
PageInit ==
    /\ unit = NoUnit
    /\ options \in AllOptions
    /\ doc \in [1..1 -> PageKinds]
    /\ pages_arg \in {NoneArg, ListArg(<<1>>)}
    /\ has_callback \in BOOLEAN
    /\ NotStarted

\* ------------------------------------------------------------------------
\* convert()
\* ------------------------------------------------------------------------
Raise(exc) ==
    /\ pc' = "raised"
    /\ error' = exc

\* lines 567-580: the file must exist, the requested pages must be pages of
\* the document
Validate ==
    /\ pc = "call"
    /\ \E exists \in BOOLEAN :
        LET requested == IF pages_arg.none
                            THEN [k \in 1..total_pages |-> k]
                            ELSE pages_arg.list
        IN IF ~exists
               THEN Raise("FileNotFoundError") /\ UNCHANGED pages
           ELSE IF InvalidPages(requested, total_pages) # <<>>
               THEN Raise("ValueError") /\ UNCHANGED pages
           ELSE /\ pc' = "start"
                /\ pages' = requested
                /\ UNCHANGED error
    /\ UNCHANGED <<env, tasks, consumed, results, completed, slides_content,
                   progress, touched, output>>

\* lines 582-583: progress_callback(0, len(pages), "Starting conversion...")
NotifyStart ==
    /\ pc = "start"
    /\ progress' = Notified(progress, 0, "start")
    /\ \E raises \in CallbackRaises :
        IF raises THEN Raise("CallbackError")
        ELSE pc' = "convert_pages" /\ UNCHANGED error
    /\ UNCHANGED <<env, pages, tasks, consumed, results, completed,
                   slides_content, touched, output>>

\* ------------------------------------------------------------------------
\* _convert_pages_sequential
\* ------------------------------------------------------------------------
\* lines 686-701, one iteration: the callback, the page, the append
SequentialIteration ==
    /\ pc = "convert_pages"
    /\ ~options.parallel_processing
    /\ Len(slides_content) < Len(pages)
    /\ LET i == Len(slides_content)
           page == pages[i + 1]
           r == ConvertOrFallback(options, doc[page], page)
       IN /\ progress' = Notified(progress, SequentialCount(i, page), "page")
          /\ \E raises \in CallbackRaises :
              IF raises
                  THEN Raise("CallbackError") /\ UNCHANGED <<slides_content, touched>>
              ELSE IF r.raised
                  THEN Raise("PageError") /\ touched' = touched \cup {page}
                       /\ UNCHANGED slides_content
              ELSE /\ slides_content' = Append(slides_content, r.slide)
                   /\ touched' = touched \cup {page}
                   /\ UNCHANGED <<pc, error>>
    /\ UNCHANGED <<env, pages, tasks, consumed, results, completed, output>>

\* line 703: return slides_content
SequentialReturn ==
    /\ pc = "convert_pages"
    /\ ~options.parallel_processing
    /\ Len(slides_content) = Len(pages)
    /\ pc' = "create"
    /\ UNCHANGED <<env, pages, tasks, consumed, results, completed,
                   slides_content, progress, touched, output, error>>

\* ------------------------------------------------------------------------
\* _convert_pages_parallel
\* ------------------------------------------------------------------------
Future(page) == [page |-> page, status |-> "queued", outcome |-> Raised]

Running == {k \in 1..Len(tasks) : tasks[k].status = "running"}

\* every future, done or not
Submitted == 1..Len(tasks)

Finished == {k \in 1..Len(tasks) : tasks[k].status = "finished"}

\* lines 644-652: one future per requested page, submitted in page order
Submit ==
    /\ pc = "convert_pages"
    /\ options.parallel_processing
    /\ tasks' = [k \in 1..Len(pages) |-> Future(pages[k])]
    /\ pc' = "as_completed"
    /\ UNCHANGED <<env, pages, consumed, results, completed, slides_content,
                   progress, touched, output, error>>

\* a worker of the pool takes the oldest queued task (at most max_workers
\* run at a time); the pool keeps working while the executor shuts down
TaskStart(k) ==
    /\ pc \in {"as_completed", "shutdown"}
    /\ tasks[k].status = "queued"
    /\ \A j \in 1..(k - 1) : tasks[j].status # "queued"
    /\ Cardinality(Running) < options.max_workers
    /\ tasks' = [tasks EXCEPT ![k].status = "running"]
    /\ touched' = touched \cup {tasks[k].page}
    /\ UNCHANGED <<env, pc, pages, consumed, results, completed,
                   slides_content, progress, output, error>>

\* a task that stores its slide in `results` itself
TaskFinishStoring(k) ==
    /\ pc \in {"as_completed", "shutdown"}
    /\ tasks[k].status = "running"
    /\ LET r == _convert_single_page(options, doc[tasks[k].page], tasks[k].page)
       IN /\ tasks' = [tasks EXCEPT ![k].status = "finished", ![k].outcome = r]
          /\ results' = IF r.raised THEN results
                        ELSE DictSet(results, tasks[k].page, r.slide)
    /\ UNCHANGED <<env, pc, pages, consumed, completed,
                   slides_content, progress, touched, output, error>>

\* the task's _convert_single_page returns or raises; the future keeps it
TaskFinish(k) ==
    /\ pc \in {"as_completed", "shutdown"}
    /\ tasks[k].status = "running"
    /\ tasks' = [tasks EXCEPT
                   ![k].status = "finished",
                   ![k].outcome = _convert_single_page(options, doc[tasks[k].page],
                                                       tasks[k].page)]
    /\ UNCHANGED <<env, pc, pages, consumed, results, completed,
                   slides_content, progress, touched, output, error>>

\* an exception leaves the `with` block: the executor shuts down, waiting
\* for its tasks, before the exception goes on
Abort(exc) ==
    /\ pc' = "shutdown"
    /\ error' = exc

\* an as_completed loop that gives a failed page an empty slide
CollectWithoutFallback(k) ==
    /\ pc = "as_completed"
    /\ k \in Finished \ consumed
    /\ consumed' = consumed \cup {k}
    /\ LET page == tasks[k].page
           slide == IF tasks[k].outcome.raised
                        THEN SlideContent(page, FALSE, <<>>, <<>>, <<>>, <<>>)
                        ELSE tasks[k].outcome.slide
       IN /\ results' = DictSet(results, page, slide)
          /\ completed' = NextCompleted(completed)
          /\ progress' = Notified(progress, completed', "page")
          /\ \E raises \in CallbackRaises :
              IF raises THEN Abort("CallbackError")
              ELSE UNCHANGED <<pc, error>>
    /\ UNCHANGED <<env, pages, tasks, slides_content, touched, output>>

\* lines 654-668, one iteration of the as_completed loop
Collect(k) ==
    /\ pc = "as_completed"
    /\ k \in Finished \ consumed
    /\ consumed' = consumed \cup {k}
    /\ LET page == tasks[k].page
           r == IF tasks[k].outcome.raised
                    THEN _create_image_fallback(doc[page], page)
                    ELSE tasks[k].outcome
       IN IF r.raised
              THEN Abort("PageError")
                   /\ UNCHANGED <<results, completed, progress>>
          ELSE /\ results' = DictSet(results, page, r.slide)
               /\ completed' = NextCompleted(completed)
               /\ progress' = Notified(progress, completed', "page")
               /\ \E raises \in CallbackRaises :
                   IF raises THEN Abort("CallbackError")
                   ELSE UNCHANGED <<pc, error>>
    /\ UNCHANGED <<env, pages, tasks, slides_content, touched, output>>

\* lines 670-671: every future was yielded; return in page order
ParallelReturn ==
    /\ pc = "as_completed"
    /\ consumed = 1..Len(tasks)
    /\ slides_content' = ResultsInPageOrder(results, pages)
    /\ pc' = "create"
    /\ UNCHANGED <<env, pages, tasks, consumed, results, completed, progress,
                   touched, output, error>>

\* ThreadPoolExecutor.__exit__: every task has finished, the exception
\* reaches the caller of convert()
Shutdown ==
    /\ pc = "shutdown"
    /\ Finished = 1..Len(tasks)
    /\ pc' = "raised"
    /\ UNCHANGED <<env, pages, tasks, consumed, results, completed,
                   slides_content, progress, touched, output, error>>

\* ------------------------------------------------------------------------
\* convert(), lines 615-628: the two last callbacks around the write
\* ------------------------------------------------------------------------
Finalize ==
    /\ pc = "create"
    /\ \E raises1 \in CallbackRaises, writes \in BOOLEAN, raises2 \in CallbackRaises :
        LET n == Len(pages)
            log1 == Notified(progress, n, "create")
        IN IF raises1
               THEN Raise("CallbackError") /\ progress' = log1 /\ UNCHANGED output
           ELSE IF ~writes
               THEN Raise("WriteError") /\ progress' = log1 /\ UNCHANGED output
           ELSE /\ output' = [written |-> TRUE,
                              slides |-> create_presentation(slides_content)]
                /\ progress' = Notified(log1, n, "done")
                /\ IF raises2 THEN Raise("CallbackError")
                   ELSE pc' = "returned" /\ UNCHANGED error
    /\ UNCHANGED <<env, pages, tasks, consumed, results, completed,
                   slides_content, touched>>

Next ==
    \/ Validate
    \/ NotifyStart
    \/ SequentialIteration
    \/ SequentialReturn
    \/ Submit
    \/ \E k \in 1..Len(tasks) : TaskStart(k)
    \/ \E k \in 1..Len(tasks) : TaskFinish(k)
    \/ \E k \in 1..Len(tasks) : Collect(k)
    \/ ParallelReturn
    \/ Shutdown
    \/ Finalize

Spec == Init /\ [][Next]_vars

PageSpec == PageInit /\ [][Next]_vars

\* ------------------------------------------------------------------------
\* Properties
\* ------------------------------------------------------------------------
Last(s) == s[Len(s)]

\* the page loop has returned its list of slides to convert()
PageLoopReturned == pc \in {"create", "returned"}

\* convert() has ended, by a return or by an exception
Terminated == pc \in {"returned", "raised"}

\* the slide the coordinator owes to the future k: what the task returned,
\* or the image slide of its page when the task raised
SlideOfFuture(k) ==
    IF tasks[k].outcome.raised
        THEN create_slide_from_image(tasks[k].page)
        ELSE tasks[k].outcome.slide

\* C1: when _convert_pages_parallel returns, its list is as long as the
\* list of requested pages and its i-th slide is the slide produced for the
\* i-th requested page (the i-th future's result, or the fallback slide of
\* that page when the future raised), whatever the pool size and the order
\* in which the futures completed.
C1_ParallelKeepsPageOrder ==
    (options.parallel_processing /\ PageLoopReturned) =>
        /\ Len(slides_content) = Len(pages)
        /\ \A i \in 1..Len(pages) :
            /\ slides_content[i].page = pages[i]
            /\ slides_content[i] = SlideOfFuture(i)

\* C1 witness: two different pages were requested, the second one completed
\* first, one of them fell back to its image, and the loop has returned.
C1_Witness ==
    /\ options.parallel_processing
    /\ PageLoopReturned
    /\ Len(pages) = 2
    /\ pages[1] # pages[2]
    /\ results[1].page = pages[2]
    /\ \E k \in 1..2 : tasks[k].outcome.raised

\* C2: an error raised while a page is processed never reaches the caller of
\* convert(): convert() never ends, nor is about to end, with a page's error.
C2_PageErrorNeverPropagates == error # "PageError"

\* C3: the elements of every written slide are added shapes first, then
\* images, then charts and tables, then text boxes.
PaintRank(kind) ==
    CASE kind = "shape" -> 0
      [] kind = "image" -> 1
      [] kind = "chart" -> 2
      [] kind = "table" -> 2
      [] kind = "text" -> 3

C3_PaintOrderShapesFirstTextLast ==
    \A s \in 1..Len(output.slides) :
        \A i, j \in 1..Len(output.slides[s]) :
            i < j => PaintRank(output.slides[s][i]) <= PaintRank(output.slides[s][j])

\* C4: when a requested page number is outside 1..page_count, convert()
\* raises before anything else happens: no page is read or rendered, no task
\* exists, no slide is made, the callback is never called and nothing is
\* written; the only way on from the call is the exception.
InvalidRequested ==
    /\ ~pages_arg.none
    /\ \E k \in 1..Len(pages_arg.list) : pages_arg.list[k] \notin 1..total_pages

C4_InvalidPagesFailFast ==
    InvalidRequested =>
        /\ pc \in {"call", "raised"}
        /\ pc = "raised" => error \in {"FileNotFoundError", "ValueError"}
        /\ touched = {}
        /\ tasks = <<>>
        /\ slides_content = <<>>
        /\ progress = <<>>
        /\ ~output.written

\* C4 witness: a list holding a valid page and the page after the last one
\* was requested, with a callback, and convert() has raised ValueError.
C4_Witness ==
    /\ InvalidRequested
    /\ has_callback
    /\ \E k \in 1..Len(pages_arg.list) : pages_arg.list[k] \in 1..total_pages
    /\ \E k \in 1..Len(pages_arg.list) : pages_arg.list[k] = total_pages + 1
    /\ pc = "raised"
    /\ error = "ValueError"

\* the pipeline of page p raised nowhere
PipelineRaisedNothing(p) == doc[p].extract = "ok" /\ doc[p].render = "ok"

\* C5 (as claimed): with fallback enabled, a page whose pipeline raised
\* nothing is replaced by its image exactly when the assembled model holds
\* no element of any kind, shapes included.
C5_FallbackIffNoElementAtAll ==
    \A i \in 1..Len(slides_content) :
        (options.fallback_to_image /\ PipelineRaisedNothing(pages[i])) =>
            LET a == Assembled(options, doc[pages[i]], pages[i])
            IN slides_content[i].fallback <=>
                  (/\ a.shapes = <<>> /\ a.images = <<>>
                   /\ a.charts = <<>> /\ a.tables = <<>> /\ a.text_boxes = <<>>)

\* C5 (amended): with fallback enabled, a page whose pipeline raised nothing
\* is replaced by its image exactly when the assembled model holds no text
\* box, no chart and no image (its shapes do not count); otherwise the
\* assembled model is emitted as it is.
C5_FallbackIffNoTextChartImage ==
    \A i \in 1..Len(slides_content) :
        (options.fallback_to_image /\ PipelineRaisedNothing(pages[i])) =>
            LET a == Assembled(options, doc[pages[i]], pages[i])
                empty == a.text_boxes = <<>> /\ a.charts = <<>> /\ a.images = <<>>
            IN /\ slides_content[i].fallback <=> empty
               /\ empty => slides_content[i] = create_slide_from_image(pages[i])
               /\ ~empty => slides_content[i] = a

\* C5 witness: a converted page holding shapes and nothing else was replaced
\* by its image.
C5_Witness ==
    /\ options.fallback_to_image
    /\ Len(slides_content) = 1
    /\ PipelineRaisedNothing(pages[1])
    /\ Assembled(options, doc[pages[1]], pages[1]).shapes # <<>>
    /\ slides_content[1].fallback

\* C6: when the recognizer raises, no chart is in the slide, every chart
\* region of the page is in it as a static image of that region, and so the
\* slide of a page with a chart region holds at least one element.
RecognizerCalled == options.extract_charts /\ options.use_ai_extraction

C6_RecognizerFailureGivesRegionImages ==
    \A i \in 1..Len(slides_content) :
        (RecognizerCalled /\ PipelineRaisedNothing(pages[i])
            /\ doc[pages[i]].analysis_raises) =>
            LET sc == slides_content[i]
            IN /\ sc.charts = <<>>
               /\ \A r \in 1..doc[pages[i]].regions :
                    \E k \in 1..Len(sc.images) :
                        sc.images[k].src = "region" /\ sc.images[k].id = r
               /\ doc[pages[i]].regions > 0 => PaintOrder(sc) # <<>>

\* C7: convert() never ends without a slide for every requested page, unless
\* it is the validation, the callback or the write that raised: every page
\* ends Done, by its pipeline or by the fallback.
C7_EveryPageEndsWithASlide ==
    (Terminated /\ error \notin {"FileNotFoundError", "ValueError",
                                 "CallbackError", "WriteError"}) =>
        Len(slides_content) = Len(pages)

\* C8: the counts given to the progress callback never decrease, the
\* per-page counts strictly increase, every count is in 0..total with total
\* the number of requested pages, and when convert() returns the last count
\* is total.
C8_ProgressMonotonic ==
    /\ \A i, j \in 1..Len(progress) :
        i < j => /\ progress[i].count <= progress[j].count
                 /\ (progress[i].phase = "page" /\ progress[j].phase = "page")
                        => progress[i].count < progress[j].count
    /\ \A i \in 1..Len(progress) :
        /\ progress[i].total = Len(pages)
        /\ progress[i].count \in 0..progress[i].total
    /\ (pc = "returned" /\ has_callback) =>
        /\ progress # <<>>
        /\ Last(progress).count = Len(pages)

\* C8 witness: convert() returned after two pages, having called the
\* callback for the start, for each page, and twice at the end.
C8_Witness ==
    /\ pc = "returned"
    /\ Len(pages) = 2
    /\ Len(progress) = 5

\* C9: an exception of the progress callback is never the exception
\* convert() ends with.
C9_CallbackErrorNeverPropagates == error # "CallbackError"

\* C10: every chart element of a slide comes from recognizer output that has
\* at least one category and at least one series.
C10_ChartsHaveCategoriesAndSeries ==
    \A i \in 1..Len(slides_content) :
        \A k \in 1..Len(slides_content[i].charts) :
            /\ slides_content[i].charts[k].categories # <<>>
            /\ slides_content[i].charts[k].series # <<>>

\* C11: every series of every chart of a slide has exactly as many values as
\* the chart has categories (short series padded, long ones truncated);
\* stated for the charts that have categories.
C11_SeriesAsLongAsCategories ==
    \A i \in 1..Len(slides_content) :
        \A k \in 1..Len(slides_content[i].charts) :
            LET chart == slides_content[i].charts[k]
            IN chart.categories # <<>> =>
                \A n \in 1..Len(chart.series) :
                    Len(chart.series[n]) = Len(chart.categories)

\* ------------------------------------------------------------------------
\* Coordinate conversion (PDF points to PowerPoint inches)
\*
\* A float is an exact fraction <<numerator, denominator>> in lowest terms
\* with a positive denominator, so that 13.333, 7.5, 1/72 and the products
\* and quotients the code forms from them are computed, not approximated.
\* ------------------------------------------------------------------------
Abs(n) == IF n < 0 THEN -n ELSE n

RECURSIVE GCD(_, _)
GCD(a, b) == IF b = 0 THEN a ELSE GCD(b, a % b)

Frac(n, d) ==
    LET g == GCD(Abs(n), Abs(d))
        s == IF d < 0 THEN -1 ELSE 1
    IN <<(s * n) \div g, (s * d) \div g>>

Float(n) == <<n, 1>>

Times(a, b) == Frac(a[1] * b[1], a[2] * b[2])

Over(a, b) == Frac(a[1] * b[2], a[2] * b[1])

Less(a, b) == a[1] * b[2] < b[1] * a[2]

Max(a, b) == IF Less(a, b) THEN b ELSE a

\* points / 72.0
points_to_inches(points) == Over(points, Float(72))

\* a conversion that measures y from the bottom of the page
convert_coordinates_flipped(pdf_x, pdf_y, pdf_width, pdf_height, pdf_page_width, pdf_page_height, ppt_slide_width, ppt_slide_height) ==
    LET x_scale == Over(ppt_slide_width, points_to_inches(pdf_page_width))
        y_scale == Over(ppt_slide_height, points_to_inches(pdf_page_height))
        flipped == Frac(pdf_page_height[1] * pdf_y[2] - pdf_y[1] * pdf_page_height[2],
                        pdf_page_height[2] * pdf_y[2])
    IN <<Times(points_to_inches(pdf_x), x_scale),
         Times(points_to_inches(flipped), y_scale),
         Times(points_to_inches(pdf_width), x_scale),
         Times(points_to_inches(pdf_height), y_scale)>>

\* (ppt_x, ppt_y, ppt_width, ppt_height); y is neither flipped nor offset
\* ("PDF y is already from top in PyMuPDF")
convert_coordinates(pdf_x, pdf_y, pdf_width, pdf_height, pdf_page_width, pdf_page_height, ppt_slide_width, ppt_slide_height) ==
    LET x_scale == Over(ppt_slide_width, points_to_inches(pdf_page_width))
        y_scale == Over(ppt_slide_height, points_to_inches(pdf_page_height))
    IN <<Times(points_to_inches(pdf_x), x_scale),
         Times(points_to_inches(pdf_y), y_scale),
         Times(points_to_inches(pdf_width), x_scale),
         Times(points_to_inches(pdf_height), y_scale)>>

\* the default slide of convert_coordinates: 13.333 x 7.5 inches
DefaultSlide == <<Frac(13333, 1000), Frac(15, 2)>>

\* a slide of the default size, whatever the page
slide_dimensions_fixed(pdf_page_width, pdf_page_height) == DefaultSlide

\* convert(): the slide keeps the aspect ratio of the first page
\* (<<slide_width, slide_height>>)
slide_dimensions(pdf_page_width, pdf_page_height) ==
    LET aspect_ratio == Over(pdf_page_width, pdf_page_height)
    IN IF Less(Frac(3, 2), aspect_ratio)
       THEN <<DefaultSlide[1], Over(DefaultSlide[1], aspect_ratio)>>
       ELSE <<Times(DefaultSlide[2], aspect_ratio), DefaultSlide[2]>>

\* ------------------------------------------------------------------------
\* Text grouping (group_text_blocks)
\*
\* A span is a PDFTextBlock: [text, x, y, width, height, font_name,
\* font_size], measured in whole points; its text identifies it.
\* ------------------------------------------------------------------------
MaxSpans == 3      \* longest list of text blocks of a page

PDFTextBlock(text, x, y, width, height, font_name, font_size) ==
    [text |-> text, x |-> x, y |-> y, width |-> width, height |-> height,
     font_name |-> font_name, font_size |-> font_size]

\* the spans a page may hold
TextBlockPool ==
    { PDFTextBlock("a", 0, 0, 100, 10, "Arial", 12),
      PDFTextBlock("b", 0, 34, 100, 10, "Arial", 12),
      PDFTextBlock("c", 0, 100, 100, 10, "Arial", 12),
      PDFTextBlock("d", 300, 12, 50, 10, "Times New Roman", 12),
      PDFTextBlock("e", 50, 0, 100, 10, "Arial", 12),
      PDFTextBlock("f", 0, 12, 100, 10, "Arial", 16),
      PDFTextBlock("g", 0, 0, 40, 10, "Times New Roman", 12),
      PDFTextBlock("h", 10, 200, 0, 0, "Courier New", 12) }

\* lists of distinct spans
TextBlockLists ==
    { s \in SeqsUpTo(TextBlockPool, MaxSpans) :
        \A i, j \in 1..Len(s) : i # j => s[i] # s[j] }

\* sorted(text_blocks, key=lambda b: (b.y, b.x)): a stable sort
KeyAtMost(a, b) == a.y < b.y \/ (a.y = b.y /\ a.x <= b.x)

\* a sort on the top edge alone
RECURSIVE sorted_by_top(_)
sorted_by_top(text_blocks) ==
    IF text_blocks = <<>>
    THEN <<>>
    ELSE LET n == Len(text_blocks)
             b == text_blocks[n]
             s == sorted_by_top(SubSeq(text_blocks, 1, n - 1))
             k == Cardinality({i \in 1..Len(s) : s[i].y <= b.y})
         IN SubSeq(s, 1, k) \o <<b>> \o SubSeq(s, k + 1, Len(s))

RECURSIVE sorted(_)
sorted(text_blocks) ==
    IF text_blocks = <<>>
    THEN <<>>
    ELSE LET n == Len(text_blocks)
             b == text_blocks[n]
             s == sorted(SubSeq(text_blocks, 1, n - 1))
             k == Cardinality({i \in 1..Len(s) : KeyAtMost(s[i], b)})
         IN SubSeq(s, 1, k) \o <<b>> \o SubSeq(s, k + 1, Len(s))

tolerance == 5     \* group_text_blocks(tolerance=5.0)

vertical_gap(current, prev) == Abs(current.y - (prev.y + prev.height))

horizontal_overlap(current, prev) ==
    ~ (\/ current.x > prev.x + prev.width + tolerance
       \/ prev.x > current.x + current.width + tolerance)

same_font(current, prev) == current.font_name = prev.font_name

\* computed by the code, and used by none of its conditions
similar_size(current, prev) == Abs(current.font_size - prev.font_size) < 2

\* the condition under which current is appended to current_group
Continues(current, prev) ==
    /\ vertical_gap(current, prev) < current.font_size * 2
    /\ (horizontal_overlap(current, prev) \/ same_font(current, prev))

\* a loop that never appends the group it is building when the spans end
RECURSIVE GroupLoopDroppingLast(_, _, _, _)
GroupLoopDroppingLast(sorted_blocks, i, groups, current_group) ==
    IF i > Len(sorted_blocks)
    THEN groups
    ELSE LET current == sorted_blocks[i]
             prev == current_group[Len(current_group)]
         IN IF Continues(current, prev)
            THEN GroupLoopDroppingLast(sorted_blocks, i + 1, groups,
                                       Append(current_group, current))
            ELSE GroupLoopDroppingLast(sorted_blocks, i + 1,
                                       Append(groups, current_group),
                                       <<current>>)

\* lines 430-453: the loop over the sorted spans from place i on, and the
\* append of the last group
RECURSIVE GroupLoop(_, _, _, _)
GroupLoop(sorted_blocks, i, groups, current_group) ==
    IF i > Len(sorted_blocks)
    THEN Append(groups, current_group)
    ELSE LET current == sorted_blocks[i]
             prev == current_group[Len(current_group)]
         IN IF Continues(current, prev)
            THEN GroupLoop(sorted_blocks, i + 1, groups,
                           Append(current_group, current))
            ELSE GroupLoop(sorted_blocks, i + 1,
                           Append(groups, current_group), <<current>>)

group_text_blocks(text_blocks) ==
    IF text_blocks = <<>>
    THEN <<>>
    ELSE LET sorted_blocks == sorted(text_blocks)
         IN GroupLoop(sorted_blocks, 2, <<>>, <<sorted_blocks[1]>>)

\* ------------------------------------------------------------------------
\* Elements of a slide (_process_text_blocks, _process_images,
\* _process_drawings, _detect_and_extract_charts), with their geometry
\*
\* A page or a slide is <<width, height>>; a source box is a Rect in whole
\* points; an element's box is a Rect in inches.
\* ------------------------------------------------------------------------
MaxBoxes == 2      \* longest list of images, drawings or charts of a page

Rect(x, y, width, height) == [x |-> x, y |-> y, width |-> width, height |-> height]

\* source boxes: zero-sized, negative-sized, tiny and ordinary ones
Boxes ==
    {Rect(x, y, w, h) : x \in {0, 72}, y \in {0, 36, 540},
                        w \in {-36, 0, 3, 144}, h \in {-36, 0, 3, 144}}

\* the boxes of the images and drawings of a page
Rects == {r \in Boxes : r.x = 72 /\ r.y = 36}

\* first pages: 4:3, 16:9, wider than 16:9, and US letter portrait
PageSizes == {<<720, 540>>, <<960, 540>>, <<1200, 540>>, <<612, 792>>}

Converted(r, page, slide) ==
    convert_coordinates(Float(r.x), Float(r.y), Float(r.width), Float(r.height),
                        Float(page[1]), Float(page[2]), slide[1], slide[2])

\* lines 918-945: one ImageElement per image, at the converted box
ImageElements(images, page, slide) ==
    [i \in 1..Len(images) |->
        LET c == Converted(images[i], page, slide)
        IN Rect(c[1], c[2], c[3], c[4])]

\* lines 947-988: a drawing narrower or lower than 0.05 inch is skipped
RECURSIVE ShapeElements(_, _, _)
ShapeElements(drawings, page, slide) ==
    IF drawings = <<>>
    THEN <<>>
    ELSE LET c == Converted(Head(drawings), page, slide)
             rest == ShapeElements(Tail(drawings), page, slide)
             aspect == IF Less(Float(0), c[4]) THEN Over(c[3], c[4]) ELSE Float(1)
             shape_type ==
                 IF /\ Less(Frac(9, 10), aspect)
                    /\ Less(aspect, Frac(11, 10))
                    /\ Less(c[3], Frac(1, 2))
                 THEN "oval"
                 ELSE "rectangle"
         IN IF Less(c[3], Frac(5, 100)) \/ Less(c[4], Frac(5, 100))
            THEN rest
            ELSE <<[shape_type |-> shape_type, x |-> c[1], y |-> c[2],
                    width |-> c[3], height |-> c[4]]>> \o rest

\* line 895: the factor applied to the font size of every block
font_scale(pdf_page_height, slide_height) ==
    Over(slide_height, points_to_inches(pdf_page_height))

SetMin(S) == CHOOSE m \in S : \A n \in S : m <= n
SetMax(S) == CHOOSE m \in S : \A n \in S : n <= m

\* lines 873-914: one TextBox per group, at the converted bounding box of the
\* group, no narrower than 0.5 inch and no lower than 0.3 inch, with one
\* paragraph of one run per block
TextBox(group, page, slide) ==
    LET idx == 1..Len(group)
        min_x == SetMin({group[i].x : i \in idx})
        min_y == SetMin({group[i].y : i \in idx})
        max_x == SetMax({group[i].x + group[i].width : i \in idx})
        max_y == SetMax({group[i].y + group[i].height : i \in idx})
        c == Converted(Rect(min_x, min_y, max_x - min_x, max_y - min_y), page, slide)
    IN [paragraphs |->
            [i \in idx |->
                [text |-> group[i].text,
                 font_name |-> group[i].font_name,
                 font_size |-> Times(Float(group[i].font_size),
                                     font_scale(Float(page[2]), slide[2]))]],
        x |-> c[1], y |-> c[2],
        width |-> Max(c[3], Frac(1, 2)),
        height |-> Max(c[4], Frac(3, 10))]

TextBoxes(text_blocks, page, slide) ==
    LET groups == group_text_blocks(text_blocks)
    IN [g \in 1..Len(groups) |-> TextBox(groups[g], page, slide)]

\* chart_info.get("bounding_box", {}): the keys the recognizer gave, and
\* their values (fractions of the slide)
BoundingBox(keys, x, y, width, height) ==
    [keys |-> keys, at |-> [x |-> x, y |-> y, width |-> width, height |-> height]]

get(bbox, key, default) == IF key \in bbox.keys THEN bbox.at[key] ELSE default

BoundingBoxes ==
    { BoundingBox({}, Float(0), Float(0), Float(0), Float(0)),
      BoundingBox({"x", "y", "width", "height"}, Float(0), Float(0), Float(1), Float(1)),
      BoundingBox({"width"}, Float(0), Float(0), Float(0), Float(0)),
      BoundingBox({"height"}, Float(0), Float(0), Float(0), Frac(-1, 2)) }

\* lines 792-804: one ChartElement per chart whose data parsed, at the box
\* the recognizer gave, or at (0.1, 0.2, 0.8, 0.6) of the slide
ChartElements(bounding_boxes, slide) ==
    [i \in 1..Len(bounding_boxes) |->
        LET bbox == bounding_boxes[i]
        IN Rect(Times(get(bbox, "x", Frac(1, 10)), slide[1]),
                Times(get(bbox, "y", Frac(2, 10)), slide[2]),
                Times(get(bbox, "width", Frac(8, 10)), slide[1]),
                Times(get(bbox, "height", Frac(6, 10)), slide[2]))]

\* ------------------------------------------------------------------------
\* The geometry of one page, function by function
\* ------------------------------------------------------------------------
\* no conversion is running
NoConversion ==
    /\ options = ConversionOptions(TRUE, TRUE, TRUE, TRUE, 1)
    /\ doc = <<>>
    /\ pages_arg = NoneArg
    /\ has_callback = FALSE
    /\ NotStarted

\* a function about to be called on args
CallOf(fn, args) == [fn |-> fn, args |-> args, returned |-> FALSE, result |-> <<>>]

\* the function returns result
Return(fn, result) ==
    /\ unit.fn = fn
    /\ ~ unit.returned
    /\ unit' = [unit EXCEPT !.returned = TRUE, !.result = result]
    /\ UNCHANGED conversion

\* convert_coordinates on any box, with the default slide or the slide of
\* convert(); the _process_* functions as _convert_single_page calls them,
\* with the size of the first page and the slide convert() derived from it
GeometryInit ==
    /\ NoConversion
    /\ \E page \in PageSizes :
        LET slide == slide_dimensions(Float(page[1]), Float(page[2]))
        IN \/ \E box \in Boxes, s \in {DefaultSlide, slide} :
                unit = CallOf("convert_coordinates",
                              [box |-> box, page |-> page, slide |-> s])
           \/ \E text_blocks \in TextBlockLists :
                unit = CallOf("_process_text_blocks",
                              [text_blocks |-> text_blocks, page |-> page, slide |-> slide])
           \/ \E images \in SeqsUpTo(Rects, MaxBoxes) :
                unit = CallOf("_process_images",
                              [images |-> images, page |-> page, slide |-> slide])
           \/ \E drawings \in SeqsUpTo(Rects, MaxBoxes) :
                unit = CallOf("_process_drawings",
                              [drawings |-> drawings, page |-> page, slide |-> slide])
           \/ \E bounding_boxes \in SeqsUpTo(BoundingBoxes, MaxBoxes) :
                unit = CallOf("_detect_and_extract_charts",
                              [bounding_boxes |-> bounding_boxes, page |-> page,
                               slide |-> slide])

ConvertCoordinates ==
    Return("convert_coordinates",
           Converted(unit.args.box, unit.args.page, unit.args.slide))

ProcessTextBlocks ==
    Return("_process_text_blocks",
           TextBoxes(unit.args.text_blocks, unit.args.page, unit.args.slide))

ProcessImages ==
    Return("_process_images",
           ImageElements(unit.args.images, unit.args.page, unit.args.slide))

ProcessDrawings ==
    Return("_process_drawings",
           ShapeElements(unit.args.drawings, unit.args.page, unit.args.slide))

ExtractCharts ==
    Return("_detect_and_extract_charts",
           ChartElements(unit.args.bounding_boxes, unit.args.slide))

GeometryNext ==
    \/ ConvertCoordinates
    \/ ProcessTextBlocks
    \/ ProcessImages
    \/ ProcessDrawings
    \/ ExtractCharts

GeometrySpec == GeometryInit /\ [][GeometryNext]_vars

ElementFunctions ==
    {"_process_text_blocks", "_process_images", "_process_drawings",
     "_detect_and_extract_charts"}

\* C13: every element placed in a slide model (text box, image, shape,
\* chart) has a strictly positive width and a strictly positive height,
\* whatever the source box, zero-sized and negative-sized ones included.
C13_ElementsHavePositiveSize ==
    (unit.fn \in ElementFunctions /\ unit.returned) =>
        \A i \in 1..Len(unit.result) :
            /\ Less(Float(0), unit.result[i].width)
            /\ Less(Float(0), unit.result[i].height)

Min(a, b) == IF Less(b, a) THEN b ELSE a

\* the block of text_blocks that a paragraph was made from
SourceBlock(text_blocks, paragraph) ==
    CHOOSE b \in {text_blocks[i] : i \in 1..Len(text_blocks)} : b.text = paragraph.text

\* C14: the font size of every text run is the font size of its source
\* block times min(sx, sy), sx and sy being the x and y scale factors that
\* map the page's boxes to the slide.
C14_FontSizeTimesSmallerScale ==
    (unit.fn = "_process_text_blocks" /\ unit.returned) =>
        LET sx == Over(unit.args.slide[1], points_to_inches(Float(unit.args.page[1])))
            sy == Over(unit.args.slide[2], points_to_inches(Float(unit.args.page[2])))
        IN \A g \in 1..Len(unit.result) :
            \A k \in 1..Len(unit.result[g].paragraphs) :
                LET paragraph == unit.result[g].paragraphs[k]
                    block == SourceBlock(unit.args.text_blocks, paragraph)
                IN paragraph.font_size = Times(Float(block.font_size), Min(sx, sy))

\* C14 witness: on a page wider than 16:9, a text box of two runs with
\* different source font sizes (12 and 16) has been built; both were scaled
\* by 13.333 / (1200 / 72) = 0.79998.
C14_Witness ==
    /\ unit.fn = "_process_text_blocks"
    /\ unit.returned
    /\ unit.args.page = <<1200, 540>>
    /\ \E g \in 1..Len(unit.result) :
        /\ Len(unit.result[g].paragraphs) = 2
        /\ unit.result[g].paragraphs[1].font_size = Frac(119997, 12500)
        /\ unit.result[g].paragraphs[2].font_size = Frac(39999, 3125)

\* ------------------------------------------------------------------------
\* group_text_blocks, called on any list of distinct spans
\* ------------------------------------------------------------------------
GroupingInit ==
    /\ NoConversion
    /\ \E text_blocks \in TextBlockLists :
        unit = CallOf("group_text_blocks", [text_blocks |-> text_blocks])

GroupTextBlocks ==
    Return("group_text_blocks", group_text_blocks(unit.args.text_blocks))

GroupingNext == GroupTextBlocks

GroupingSpec == GroupingInit /\ [][GroupingNext]_vars

\* the spans of the groups, in the order of the groups
RECURSIVE Flatten(_)
Flatten(groups) ==
    IF groups = <<>> THEN <<>> ELSE Head(groups) \o Flatten(Tail(groups))

\* the places of Flatten(groups) at which a group starts
RECURSIVE GroupStarts(_)
GroupStarts(groups) ==
    IF groups = <<>>
    THEN {}
    ELSE LET front == SubSeq(groups, 1, Len(groups) - 1)
         IN GroupStarts(front) \cup {Len(Flatten(front)) + 1}

\* C15: walking the spans sorted by (top, left), a span starts a new group
\* exactly when (a) its vertical gap to the previous span exceeds twice its
\* font size and (b) it fails the secondary test (horizontal overlap with
\* the previous span, or same font with size within 2pt); otherwise it
\* joins the current group.  Stated for gaps other than exactly twice the
\* font size.
C15_NewGroupIffGapAndNoContinuation ==
    (unit.fn = "group_text_blocks" /\ unit.returned) =>
        LET walk == Flatten(unit.result)
        IN \A i \in 2..Len(walk) :
            LET current == walk[i]
                prev == walk[i - 1]
                gap == vertical_gap(current, prev)
                secondary ==
                    \/ horizontal_overlap(current, prev)
                    \/ (same_font(current, prev) /\ similar_size(current, prev))
            IN gap # current.font_size * 2 =>
                (i \in GroupStarts(unit.result)
                    <=> (gap > current.font_size * 2 /\ ~ secondary))

\* C16: a span whose vertical gap to the previous span is exactly twice its
\* font size joins the current group; it never starts a new one.
C16_TieJoinsCurrentGroup ==
    (unit.fn = "group_text_blocks" /\ unit.returned) =>
        LET walk == Flatten(unit.result)
        IN \A i \in 2..Len(walk) :
            vertical_gap(walk[i], walk[i - 1]) = walk[i].font_size * 2
                => i \notin GroupStarts(unit.result)

\* the place of a span in a list of distinct spans
IndexIn(text_blocks, b) == CHOOSE i \in 1..Len(text_blocks) : text_blocks[i] = b

\* C17 as stated: within every group the spans are in the relative order
\* they had in the input list.
C17_GroupsKeepInputOrder ==
    (unit.fn = "group_text_blocks" /\ unit.returned) =>
        \A g \in 1..Len(unit.result) :
            \A j, k \in 1..Len(unit.result[g]) :
                j < k => IndexIn(unit.args.text_blocks, unit.result[g][j])
                            < IndexIn(unit.args.text_blocks, unit.result[g][k])

\* C17: within every group the spans are in ascending order of (top, left);
\* spans with the same top and left keep the relative order they had in the
\* input list.
C17_GroupsInReadingOrder ==
    (unit.fn = "group_text_blocks" /\ unit.returned) =>
        \A g \in 1..Len(unit.result) :
            \A j, k \in 1..Len(unit.result[g]) :
                LET first == unit.result[g][j]
                    second == unit.result[g][k]
                IN j < k =>
                    \/ first.y < second.y
                    \/ (first.y = second.y /\ first.x < second.x)
                    \/ /\ first.y = second.y
                       /\ first.x = second.x
                       /\ IndexIn(unit.args.text_blocks, first)
                            < IndexIn(unit.args.text_blocks, second)

\* C17 witness: the input e, g, a (e to the right of g and a, which share
\* their top left corner) has come back as the one group g, a, e.
C17_Witness ==
    /\ unit.fn = "group_text_blocks"
    /\ unit.returned
    /\ Len(unit.args.text_blocks) = 3
    /\ unit.args.text_blocks[1].text = "e"
    /\ unit.args.text_blocks[2].text = "g"
    /\ unit.args.text_blocks[3].text = "a"
    /\ Len(unit.result) = 1
    /\ Len(unit.result[1]) = 3
    /\ unit.result[1][1].text = "g"
    /\ unit.result[1][2].text = "a"
    /\ unit.result[1][3].text = "e"

\* ------------------------------------------------------------------------
\* Chart region detection (detect_chart_region, _cluster_drawings)
\*
\* Images and drawings are Rects in whole points; a region is
\* <<x, y, width, height>>.
\* ------------------------------------------------------------------------
MaxDrawings == 3   \* longest list of drawings handed to the detection
MaxImages == 1     \* longest list of images handed to the detection

distance_threshold == 50   \* _cluster_drawings(distance_threshold=50)

\* three bars that together span exactly 50 x 50 points, a larger bar, a
\* bar whose centre is 50 points from the first one's, and a mark far from
\* them
DrawingPool ==
    { Rect(0, 0, 10, 50), Rect(20, 0, 10, 50), Rect(40, 0, 10, 50),
      Rect(40, 0, 20, 60), Rect(50, 0, 10, 50), Rect(300, 300, 10, 10) }

ImagePool == { Rect(100, 100, 300, 200), Rect(0, 0, 50, 50) }

DetectionPages == { <<500, 500>>, <<1000, 500>> }

\* a comparison that lets a distance equal to the threshold through
NearOrAt(drawing, other) ==
    /\ Abs((2 * drawing.x + drawing.width) - (2 * other.x + other.width))
            <= 2 * distance_threshold
    /\ Abs((2 * drawing.y + drawing.height) - (2 * other.y + other.height))
            <= 2 * distance_threshold

\* lines 516-519: both centre distances are below the threshold (twice the
\* centre coordinates are compared with twice the threshold)
Near(drawing, other) ==
    /\ Abs((2 * drawing.x + drawing.width) - (2 * other.x + other.width))
            < 2 * distance_threshold
    /\ Abs((2 * drawing.y + drawing.height) - (2 * other.y + other.height))
            < 2 * distance_threshold

\* the drawings at the places J, in the order of the list, from place j on
RECURSIVE Members(_, _, _)
Members(drawings, J, j) ==
    IF j > Len(drawings)
    THEN <<>>
    ELSE (IF j \in J THEN <<drawings[j]>> ELSE <<>>) \o Members(drawings, J, j + 1)

\* an outer loop that forgets which drawings it has put in a cluster
RECURSIVE ClusterLoopForgetful(_, _, _, _)
ClusterLoopForgetful(drawings, i, used, clusters) ==
    IF i > Len(drawings)
    THEN clusters
    ELSE LET others == {j \in 1..Len(drawings) :
                            j # i /\ Near(drawings[i], drawings[j])}
             cluster == <<drawings[i]>> \o Members(drawings, others, 1)
         IN ClusterLoopForgetful(drawings, i + 1, used, Append(clusters, cluster))

\* lines 504-523: the outer loop from place i on
RECURSIVE ClusterLoop(_, _, _, _)
ClusterLoop(drawings, i, used, clusters) ==
    IF i > Len(drawings)
    THEN clusters
    ELSE IF i \in used
    THEN ClusterLoop(drawings, i + 1, used, clusters)
    ELSE LET others == {j \in 1..Len(drawings) :
                            /\ j \notin used \cup {i}
                            /\ Near(drawings[i], drawings[j])}
             cluster == <<drawings[i]>> \o Members(drawings, others, 1)
         IN ClusterLoop(drawings, i + 1, used \cup {i} \cup others,
                        Append(clusters, cluster))

_cluster_drawings(drawings) == ClusterLoop(drawings, 1, {}, <<>>)

\* lines 481-488: <<min_x, min_y, width, height>> of a cluster
BoundingRegion(cluster) ==
    LET idx == 1..Len(cluster)
        min_x == SetMin({cluster[i].x : i \in idx})
        min_y == SetMin({cluster[i].y : i \in idx})
        max_x == SetMax({cluster[i].x + cluster[i].width : i \in idx})
        max_y == SetMax({cluster[i].y + cluster[i].height : i \in idx})
    IN <<min_x, min_y, max_x - min_x, max_y - min_y>>

\* lines 480 and 490: at least 3 drawings, and a box wider than 0.1 of the
\* page width and higher than 0.1 of the page height
LooksLikeChart(cluster, page_width, page_height) ==
    /\ Len(cluster) >= 3
    /\ BoundingRegion(cluster)[3] * 10 > page_width
    /\ BoundingRegion(cluster)[4] * 10 > page_height

RECURSIVE RegionsOf(_, _, _)
RegionsOf(clusters, page_width, page_height) ==
    IF clusters = <<>>
    THEN <<>>
    ELSE (IF LooksLikeChart(Head(clusters), page_width, page_height)
          THEN <<BoundingRegion(Head(clusters))>>
          ELSE <<>>)
         \o RegionsOf(Tail(clusters), page_width, page_height)

\* the images are not looked at
detect_chart_region(images, drawings, page_width, page_height) ==
    IF drawings # <<>>
    THEN RegionsOf(_cluster_drawings(drawings), page_width, page_height)
    ELSE <<>>

DetectionInit ==
    /\ NoConversion
    /\ \E images \in SeqsUpTo(ImagePool, MaxImages),
          drawings \in SeqsUpTo(DrawingPool, MaxDrawings),
          page \in DetectionPages :
        unit = CallOf("detect_chart_region",
                      [images |-> images, drawings |-> drawings, page |-> page])

DetectChartRegion ==
    Return("detect_chart_region",
           detect_chart_region(unit.args.images, unit.args.drawings,
                               unit.args.page[1], unit.args.page[2]))

DetectionNext == DetectChartRegion

DetectionSpec == DetectionInit /\ [][DetectionNext]_vars

\* the elements of a list
Elements(s) == {s[i] : i \in 1..Len(s)}

\* C18: every image wider and higher than the minimum size (100 points in
\* each dimension) is returned as a candidate region equal to its bounding
\* box, whether or not the page has drawings.
C18_LargeImagesAreCandidates ==
    (unit.fn = "detect_chart_region" /\ unit.returned) =>
        \A img \in Elements(unit.args.images) :
            (img.width > 100 /\ img.height > 100) =>
                <<img.x, img.y, img.width, img.height>> \in Elements(unit.result)

\* C19: a cluster's bounding box is proposed if and only if the cluster has
\* at least 3 drawings and the box is at least 10% of the page width wide
\* and at least 10% of the page height high, the boundary included.
C19_ClusterProposedIffThreeAndTenPercent ==
    (unit.fn = "detect_chart_region" /\ unit.returned) =>
        LET clusters == _cluster_drawings(unit.args.drawings)
        IN Elements(unit.result) =
            { BoundingRegion(c) : c \in
                { c \in Elements(clusters) :
                    /\ Len(c) >= 3
                    /\ BoundingRegion(c)[3] * 10 >= unit.args.page[1]
                    /\ BoundingRegion(c)[4] * 10 >= unit.args.page[2] } }

\* ------------------------------------------------------------------------
\* Font names (_normalize_font_name)
\* ------------------------------------------------------------------------
MaxFragments == 2  \* most fragments a font name is made of

\* font names: an optional subset prefix, then fragments
Prefixes == {"", "ABCDEF+"}

Fragments ==
    {"Times", "TIMES", "times", "TimesNewRomanPSMT", "Arial", "Helvetica",
     "Impact", "Georgia", "Calibri", "Courier", "Symbol", "-Bold", "MT"}

RECURSIVE Joined(_)
Joined(fragments) ==
    IF fragments = <<>> THEN "" ELSE Head(fragments) \o Joined(Tail(fragments))

FontNames ==
    {prefix \o Joined(fragments) :
        prefix \in Prefixes, fragments \in SeqsUpTo(Fragments, MaxFragments)}

\* the dict font_map, in the order of its keys
font_map ==
    << <<"ArialMT", "Arial">>, <<"Arial-BoldMT", "Arial">>,
       <<"Arial-ItalicMT", "Arial">>, <<"Arial-BoldItalicMT", "Arial">>,
       <<"TimesNewRomanPSMT", "Times New Roman">>,
       <<"TimesNewRomanPS-BoldMT", "Times New Roman">>,
       <<"TimesNewRomanPS-ItalicMT", "Times New Roman">>,
       <<"Helvetica", "Arial">>, <<"Helvetica-Bold", "Arial">>,
       <<"Helvetica-Oblique", "Arial">>, <<"CourierNewPSMT", "Courier New">>,
       <<"Georgia", "Georgia">>, <<"Verdana", "Verdana">>, <<"Tahoma", "Tahoma">>,
       <<"TrebuchetMS", "Trebuchet MS">>, <<"Calibri", "Calibri">>,
       <<"Calibri-Bold", "Calibri">>, <<"Calibri-Light", "Calibri Light">>,
       <<"Cambria", "Cambria">>, <<"Garamond", "Garamond">>,
       <<"BookAntiqua", "Book Antiqua">>, <<"Palatino", "Palatino Linotype">>,
       <<"Century", "Century">>, <<"CenturyGothic", "Century Gothic">>,
       <<"FranklinGothic", "Franklin Gothic">>, <<"Impact", "Impact">>,
       <<"LucidaSans", "Lucida Sans">>, <<"SegoeUI", "Segoe UI">> >>

\* str.lower()
RECURSIVE lower(_)
lower(s) ==
    IF s = ""
    THEN ""
    ELSE LET upper == "ABCDEFGHIJKLMNOPQRSTUVWXYZ"
             c == SubSeq(s, 1, 1)
             at == {i \in 1..26 : SubSeq(upper, i, i) = c}
         IN (IF at = {}
             THEN c
             ELSE LET i == CHOOSE i \in at : TRUE
                  IN SubSeq("abcdefghijklmnopqrstuvwxyz", i, i))
            \o lower(SubSeq(s, 2, Len(s)))

\* part in s
In(part, s) ==
    \E i \in 1..(Len(s) - Len(part) + 1) : SubSeq(s, i, i + Len(part) - 1) = part

\* font_name.split("+", 1)[1] for a name with a "+" in it
AfterPlus(font_name) ==
    LET i == SetMin({i \in 1..Len(font_name) : SubSeq(font_name, i, i) = "+"})
    IN SubSeq(font_name, i + 1, Len(font_name))

\* a normalization that compares the name as it is, without lower()
_normalize_font_name_case_sensitive(font_name) ==
    LET name == IF In("+", font_name) THEN AfterPlus(font_name) ELSE font_name
        exact == {k \in 1..Len(font_map) : font_map[k][1] = name}
        partial == {k \in 1..Len(font_map) : In(font_map[k][1], name)}
    IN IF exact # {} THEN font_map[SetMin(exact)][2]
       ELSE IF partial # {} THEN font_map[SetMin(partial)][2]
       ELSE IF In("arial", name) THEN "Arial"
       ELSE IF In("times", name) THEN "Times New Roman"
       ELSE IF In("helvetica", name) THEN "Arial"
       ELSE IF In("calibri", name) THEN "Calibri"
       ELSE IF In("courier", name) THEN "Courier New"
       ELSE "Calibri"

_normalize_font_name(font_name) ==
    LET name == IF In("+", font_name) THEN AfterPlus(font_name) ELSE font_name
        exact == {k \in 1..Len(font_map) : font_map[k][1] = name}
        font_lower == lower(name)
        partial == {k \in 1..Len(font_map) : In(lower(font_map[k][1]), font_lower)}
    IN IF exact # {} THEN font_map[SetMin(exact)][2]
       ELSE IF partial # {} THEN font_map[SetMin(partial)][2]
       ELSE IF In("arial", font_lower) THEN "Arial"
       ELSE IF In("times", font_lower) THEN "Times New Roman"
       ELSE IF In("helvetica", font_lower) THEN "Arial"
       ELSE IF In("calibri", font_lower) THEN "Calibri"
       ELSE IF In("courier", font_lower) THEN "Courier New"
       ELSE "Calibri"

FontInit ==
    /\ NoConversion
    /\ \E font_name \in FontNames :
        unit = CallOf("_normalize_font_name", [font_name |-> font_name])

NormalizeFontName ==
    Return("_normalize_font_name", _normalize_font_name(unit.args.font_name))

FontNext == NormalizeFontName

FontSpec == FontInit /\ [][FontNext]_vars

\* the name without its subset prefix, in lower case
Stripped(font_name) ==
    LET i == {i \in 1..Len(font_name) : SubSeq(font_name, i, i) = "+"}
    IN lower(IF i = {} THEN font_name
             ELSE SubSeq(font_name, SetMin(i) + 1, Len(font_name)))

\* the families whose font_map key is in the name
KeyFamiliesIn(name) ==
    {font_map[k][2] : k \in {k \in 1..Len(font_map) : In(lower(font_map[k][1]), name)}}

\* the families whose font_map key, or whose base name, is in the name
FamiliesIn(name) ==
    KeyFamiliesIn(name)
    \cup {f[2] : f \in {f \in { <<"arial", "Arial">>, <<"times", "Times New Roman">>,
                                 <<"helvetica", "Arial">>, <<"calibri", "Calibri">>,
                                 <<"courier", "Courier New">> } : In(f[1], name)}}

Unguarded(primitives) ==
    [raised |-> \E k \in 1..Len(primitives) : primitives[k] = "raises",
     items |-> SelectSeq([k \in 1..Len(primitives) |-> [id |-> k, is |-> primitives[k]]],
                         LAMBDA e : e.is \notin {"raises", "no_rect"})]

\* lines 282-306 and 319-354: the body of the loop is a try block whose
\* handler goes on with the next primitive; a primitive without a rectangle
\* is left out too
Guarded(primitives) ==
    [raised |-> FALSE,
     items |-> SelectSeq([k \in 1..Len(primitives) |-> [id |-> k, is |-> primitives[k]]],
                         LAMBDA e : e.is \notin {"raises", "no_rect"})]

_extract_images(image_list) == Guarded(image_list)

_extract_drawings(path_list) == Guarded(path_list)

\* the page as the pipeline sees it (no chart recognizer output)
extract_page_elements(raw) ==
    LET images == _extract_images(raw.image_list)
        drawings == _extract_drawings(raw.path_list)
    IN Page(IF images.raised \/ drawings.raised THEN "raises" ELSE "ok", "ok",
            raw.texts, Len(images.items),
            [k \in 1..Len(drawings.items) |-> drawings.items[k].is],
            FALSE, <<>>, 0)

ExtractionInit ==
    /\ NoConversion
    /\ \E texts \in 0..1, fallback_to_image \in BOOLEAN,
          image_list \in SeqsUpTo({"ok", "no_rect", "raises"}, MaxBoxes),
          path_list \in SeqsUpTo({"big", "tiny", "no_rect", "raises"}, MaxBoxes) :
        unit = CallOf("extract_page_elements",
                      [raw |-> [texts |-> texts, image_list |-> image_list,
                                path_list |-> path_list],
                       options |-> ConversionOptions(TRUE, TRUE, fallback_to_image,
                                                     FALSE, 1)])

\* the try block of the page loop on a raw page: the primitives extracted,
\* and the slide of the page
ExtractAndConvert ==
    Return("extract_page_elements",
           [images   |-> _extract_images(unit.args.raw.image_list),
            drawings |-> _extract_drawings(unit.args.raw.path_list),
            outcome  |-> ConvertOrFallback(unit.args.options,
                                           extract_page_elements(unit.args.raw), 1)])

ExtractionSpec == ExtractionInit /\ [][ExtractAndConvert]_vars

\* the places of a list at which a primitive decodes
Decodable(primitives) ==
    {k \in 1..Len(primitives) : primitives[k] \notin {"raises", "no_rect"}}

\* the ids of extracted primitives
Ids(extracted) == {extracted.items[k].id : k \in 1..Len(extracted.items)}

SomePrimitiveRaises(raw) ==
    \/ \E k \in 1..Len(raw.image_list) : raw.image_list[k] = "raises"
    \/ \E k \in 1..Len(raw.path_list) : raw.path_list[k] = "raises"

\* every other primitive is extracted, once and in page order, and the page
\* is not failed
OthersExtracted ==
    LET raw == unit.args.raw
        got == unit.result
    IN /\ ~ got.images.raised /\ ~ got.drawings.raised
       /\ Ids(got.images) = Decodable(raw.image_list)
       /\ Ids(got.drawings) = Decodable(raw.path_list)
       /\ \A e \in {got.images, got.drawings} :
            \A j, k \in 1..Len(e.items) : j < k => e.items[j].id < e.items[k].id
       /\ ~ got.outcome.raised

\* C21 as stated: a primitive whose decoding raises is skipped; every other
\* primitive of the page is extracted, the page is not failed, and it is
\* not replaced by its whole-page image.
C21_BadPrimitiveNeverLeadsToFallback ==
    (unit.fn = "extract_page_elements" /\ unit.returned
        /\ SomePrimitiveRaises(unit.args.raw)) =>
        /\ OthersExtracted
        /\ ~ unit.result.outcome.slide.fallback

\* C21: a primitive whose decoding raises is skipped; every other primitive
\* of the page is extracted and the page is not failed; it is replaced by
\* its whole-page image exactly when fallback is enabled and what remains
\* holds no text and no image.
C21_BadPrimitiveIsSkipped ==
    (unit.fn = "extract_page_elements" /\ unit.returned
        /\ SomePrimitiveRaises(unit.args.raw)) =>
        /\ OthersExtracted
        /\ unit.result.outcome.slide.fallback <=>
            /\ unit.args.options.fallback_to_image
            /\ unit.args.raw.texts = 0
            /\ Decodable(unit.args.raw.image_list) = {}
        /\ ~ unit.result.outcome.slide.fallback =>
            /\ Len(unit.result.outcome.slide.images)
                    = Cardinality(Decodable(unit.args.raw.image_list))
            /\ Len(unit.result.outcome.slide.shapes)
                    = Cardinality({k \in 1..Len(unit.args.raw.path_list) :
                                        unit.args.raw.path_list[k] = "big"})

\* C21 witness: the first image and the first path of a page raised, the
\* second ones were extracted, and the page's slide holds them.
C21_Witness ==
    /\ unit.fn = "extract_page_elements"
    /\ unit.returned
    /\ unit.args.raw.image_list = <<"raises", "ok">>
    /\ unit.args.raw.path_list = <<"raises", "big">>
    /\ Ids(unit.result.images) = {2}
    /\ Ids(unit.result.drawings) = {2}
    /\ ~ unit.result.outcome.raised
    /\ ~ unit.result.outcome.slide.fallback
    /\ Len(unit.result.outcome.slide.images) = 1
    /\ Len(unit.result.outcome.slide.shapes) = 1

\* the presentation is written from the slides of all requested pages, and
\* no task of the pool is queued or running any more
WrittenFromAllPages ==
    output.written =>
        /\ pc \in {"returned", "raised"}
        /\ Len(slides_content) = Len(pages)
        /\ \A i \in 1..Len(pages) : slides_content[i].page = pages[i]
        /\ output.slides = create_presentation(slides_content)
        /\ \A k \in 1..Len(tasks) : tasks[k].status = "finished"

\* C22: a convert() call that returns has built and saved the presentation,
\* exactly once (what was written is never written again), only after
\* every requested page produced its final slide, and with no page task
\* queued or running when the write starts.
C22_WrittenOnceAfterAllPages ==
    /\ [](WrittenFromAllPages /\ (pc = "returned" => output.written))
    /\ [][output.written => output' = output]_vars

\* C22 witness: a parallel conversion of two pages, one of them replaced by
\* its image, has returned with a presentation of two slides.
C22_Witness ==
    /\ pc = "returned"
    /\ options.parallel_processing
    /\ Len(tasks) = 2
    /\ \E i \in 1..2 : slides_content[i].fallback
    /\ output.written
    /\ Len(output.slides) = 2

\* C23: with AI extraction disabled the chart recognizer is called for no
\* page, no slide holds a chart, and the conversion completes with one slide
\* per requested page (unless it is the validation, the callback or the
\* write that raised).
C23_NoAiNoChartsAndCompletes ==
    ~ options.use_ai_extraction =>
        /\ ~ RecognizerCalled
        /\ \A i \in 1..Len(slides_content) : slides_content[i].charts = <<>>
        /\ \A s \in 1..Len(output.slides) :
            \A e \in 1..Len(output.slides[s]) : output.slides[s][e] # "chart"
        /\ (Terminated /\ error \notin {"FileNotFoundError", "ValueError",
                                        "CallbackError", "WriteError"}) =>
            /\ pc = "returned"
            /\ Len(slides_content) = Len(pages)
            /\ Len(output.slides) = Len(pages)

\* ------------------------------------------------------------------------
\* Page specifications of the command line (main._parse_page_range)
\* ------------------------------------------------------------------------
MaxSpecLen == 4    \* longest page specification, in characters

\* page specifications: every string of these characters
PageSpecifications ==
    {Joined(cs) : cs \in SeqsUpTo({"1", "2", "3", ",", "-", " "}, MaxSpecLen)}

\* s.split(sep), and s.split(sep, 1) when once
RECURSIVE split(_, _, _)
split(s, sep, once) ==
    LET at == {i \in 1..Len(s) : SubSeq(s, i, i) = sep}
    IN IF at = {}
       THEN <<s>>
       ELSE LET i == SetMin(at)
                rest == SubSeq(s, i + 1, Len(s))
            IN <<SubSeq(s, 1, i - 1)>>
               \o (IF once THEN <<rest>> ELSE split(rest, sep, FALSE))

\* page_spec.replace(" ", "")
WithoutSpaces(s) == Joined(split(s, " ", FALSE))

\* the value of a string of decimal digits (0 for the empty string)
RECURSIVE DigitsValue(_)
DigitsValue(s) ==
    IF s = ""
    THEN 0
    ELSE DigitsValue(SubSeq(s, 1, Len(s) - 1)) * 10
         + (CHOOSE d \in 0..9 : SubSeq("0123456789", d + 1, d + 1) = SubSeq(s, Len(s), Len(s)))

AllDigits(s) ==
    /\ s # ""
    /\ \A i \in 1..Len(s) : In(SubSeq(s, i, i), "0123456789")

\* int(s): an optional sign, then digits; anything else is a ValueError
\* (value 0 stands for no value)
int(s) ==
    LET signed == s # "" /\ SubSeq(s, 1, 1) \in {"-", "+"}
        digits == IF signed THEN SubSeq(s, 2, Len(s)) ELSE s
    IN [raises |-> ~ AllDigits(digits),
        value |-> IF ~ AllDigits(digits) THEN 0
                  ELSE IF signed /\ SubSeq(s, 1, 1) = "-"
                  THEN 0 - DigitsValue(digits) ELSE DigitsValue(digits)]

\* what one part adds to pages: [raises, pages]
PagesOfPart(part) ==
    IF In("-", part)
    THEN LET ends == split(part, "-", TRUE)
             start == int(ends[1])
             end == int(ends[2])
             low == IF start.value > end.value THEN end.value ELSE start.value
             high == IF start.value > end.value THEN start.value ELSE end.value
         IN [raises |-> start.raises \/ end.raises, pages |-> low..high]
    ELSE [raises |-> int(part).raises, pages |-> {int(part).value}]

\* sorted(set)
RECURSIVE Ascending(_)
Ascending(S) ==
    IF S = {} THEN <<>> ELSE <<SetMin(S)>> \o Ascending(S \ {SetMin(S)})

\* None, or the list of pages
_parse_page_range(page_spec) ==
    LET parts == split(WithoutSpaces(page_spec), ",", FALSE)
        added == [k \in 1..Len(parts) |-> PagesOfPart(parts[k])]
        all_pages == UNION {added[k].pages : k \in 1..Len(parts)}
    IN IF (\E k \in 1..Len(parts) : added[k].raises) \/ all_pages = {}
       THEN NoneArg
       ELSE ListArg(Ascending(all_pages))

ParseInit ==
    /\ NoConversion
    /\ \E page_spec \in PageSpecifications :
        unit = CallOf("_parse_page_range", [page_spec |-> page_spec])

ParsePageRange ==
    Return("_parse_page_range", _parse_page_range(unit.args.page_spec))

ParseSpec == ParseInit /\ [][ParsePageRange]_vars

\* a page number, or two page numbers around a dash
WellFormedPart(part) ==
    \/ AllDigits(part)
    \/ \E i \in 1..Len(part) :
        /\ SubSeq(part, i, i) = "-"
        /\ AllDigits(SubSeq(part, 1, i - 1))
        /\ AllDigits(SubSeq(part, i + 1, Len(part)))

\* comma-separated well-formed parts, spaces not counted
WellFormed(page_spec) ==
    LET parts == split(WithoutSpaces(page_spec), ",", FALSE)
    IN \A k \in 1..Len(parts) : WellFormedPart(parts[k])

\* the pages a well-formed part lists
ListedBy(part) ==
    IF AllDigits(part)
    THEN {DigitsValue(part)}
    ELSE LET i == CHOOSE i \in 1..Len(part) : SubSeq(part, i, i) = "-"
             a == DigitsValue(SubSeq(part, 1, i - 1))
             b == DigitsValue(SubSeq(part, i + 1, Len(part)))
         IN (a..b) \cup (b..a)

\* C24: for a well-formed specification (comma-separated page numbers and
\* ranges a-b, a reversed range counting as a-b) _parse_page_range returns
\* exactly the listed pages as a strictly ascending list; for a malformed
\* or empty one it returns None.
C24_ListedPagesOrNone ==
    (unit.fn = "_parse_page_range" /\ unit.returned) =>
        LET parts == split(WithoutSpaces(unit.args.page_spec), ",", FALSE)
        IN IF WellFormed(unit.args.page_spec)
           THEN /\ ~ unit.result.none
                /\ Elements(unit.result.list)
                      = UNION {ListedBy(parts[k]) : k \in 1..Len(parts)}
                /\ \A j, k \in 1..Len(unit.result.list) :
                      j < k => unit.result.list[j] < unit.result.list[k]
           ELSE unit.result = NoneArg

\* ------------------------------------------------------------------------
\* _cluster_drawings, called on any list of drawings
\* ------------------------------------------------------------------------
ClusterInit ==
    /\ NoConversion
    /\ \E drawings \in SeqsUpTo(DrawingPool, MaxDrawings) :
        unit = CallOf("_cluster_drawings", [drawings |-> drawings])

ClusterDrawings ==
    Return("_cluster_drawings", _cluster_drawings(unit.args.drawings))

ClusterSpec == ClusterInit /\ [][ClusterDrawings]_vars

\* the centres of a and b are less than the threshold apart on both axes
CentresWithinThreshold(a, b) ==
    /\ (2 * a.x + a.width) - (2 * b.x + b.width) < 2 * distance_threshold
    /\ (2 * b.x + b.width) - (2 * a.x + a.width) < 2 * distance_threshold
    /\ (2 * a.y + a.height) - (2 * b.y + b.height) < 2 * distance_threshold
    /\ (2 * b.y + b.height) - (2 * a.y + a.height) < 2 * distance_threshold

\* C25 as stated: in every cluster, any two members are close to each
\* other: their centres are less than the threshold apart.
C25_MembersMutuallyClose ==
    (unit.fn = "_cluster_drawings" /\ unit.returned) =>
        \A c \in 1..Len(unit.result) :
            \A j, k \in 1..Len(unit.result[c]) :
                CentresWithinThreshold(unit.result[c][j], unit.result[c][k])

\* C25: in every cluster, every member is close to the cluster's first
\* drawing: their centres are less than the threshold apart horizontally
\* and vertically.
C25_MembersCloseToFirst ==
    (unit.fn = "_cluster_drawings" /\ unit.returned) =>
        \A c \in 1..Len(unit.result) :
            /\ unit.result[c] # <<>>
            /\ \A k \in 1..Len(unit.result[c]) :
                CentresWithinThreshold(unit.result[c][1], unit.result[c][k])

\* C25 witness: a cluster of three drawings whose second and third are 50
\* points apart, each of them less than 50 points from the first.
C25_Witness ==
    /\ unit.fn = "_cluster_drawings"
    /\ unit.returned
    /\ Len(unit.result) = 1
    /\ Len(unit.result[1]) = 3
    /\ ~ CentresWithinThreshold(unit.result[1][2], unit.result[1][3])

\* the place of the first cluster of `clusters` whose first drawing is
\* close to `drawing`, 0 when there is none
FirstClusterNear(clusters, drawing) ==
    LET close == {c \in 1..Len(clusters) :
                      CentresWithinThreshold(clusters[c][1], drawing)}
    IN IF close = {} THEN 0
       ELSE CHOOSE c \in close : \A other \in close : c <= other

\* the single pass: the drawings from place j on are put, one at a time,
\* into the first cluster they are close to, or start a cluster of their own
RECURSIVE SinglePass(_, _, _)
SinglePass(drawings, j, clusters) ==
    IF j > Len(drawings)
    THEN clusters
    ELSE LET c == FirstClusterNear(clusters, drawings[j])
         IN SinglePass(drawings, j + 1,
                IF c = 0
                THEN Append(clusters, <<drawings[j]>>)
                ELSE [clusters EXCEPT ![c] = Append(@, drawings[j])])

\* the number of places of the sequence s that hold e
Occurrences(s, e) == Cardinality({k \in 1..Len(s) : s[k] = e})

\* C26: the clusters returned are those of the single pass over the
\* drawings in input order, in the same order and with the same order of
\* members, and every drawing of the input is in exactly one of them.
C26_SameAsSinglePass ==
    (unit.fn = "_cluster_drawings" /\ unit.returned) =>
        /\ unit.result = SinglePass(unit.args.drawings, 1, <<>>)
        /\ \A drawing \in DrawingPool :
            Occurrences(Flatten(unit.result), drawing)
                = Occurrences(unit.args.drawings, drawing)

\* C26 witness: the third drawing joined the first cluster, which was
\* created before the cluster of the second drawing.
C26_Witness ==
    /\ unit.fn = "_cluster_drawings"
    /\ unit.returned
    /\ Len(unit.args.drawings) = 3
    /\ Len(unit.result) = 2
    /\ unit.result[1] = <<unit.args.drawings[1], unit.args.drawings[3]>>
    /\ unit.result[2] = <<unit.args.drawings[2]>>
    /\ unit.args.drawings[1] # unit.args.drawings[3]

\* ------------------------------------------------------------------------
\* Shared state in parallel mode
\* ------------------------------------------------------------------------
\* a step of the task of future k: the future changes
StepOfTask(k) == tasks'[k] # tasks[k]

\* the step is one iteration of the coordinator's as_completed loop
StepOfCoordinatorLoop == pc = "as_completed" /\ consumed' # consumed

\* C27: in parallel mode a step of a task changes its own future and nothing
\* of the coordinator or of another task, its result is a function of its
\* own page alone, the results map and the completed counter change only in
\* steps of the coordinator's loop, and no step changes the options.
C27_TasksShareNoWrittenState ==
    [][ /\ options' = options
        /\ \A k \in 1..Len(tasks) :
            StepOfTask(k) =>
                /\ \A j \in 1..Len(tasks) : j # k => tasks'[j] = tasks[j]
                /\ tasks'[k].page = tasks[k].page
                /\ tasks'[k].status = "finished" =>
                    tasks'[k].outcome =
                        _convert_single_page(options, doc[tasks[k].page],
                                             tasks[k].page)
                /\ UNCHANGED <<pc, pages, consumed, results, completed,
                               slides_content, progress, output, error>>
        /\ (results' # results \/ completed' # completed) =>
                StepOfCoordinatorLoop /\ tasks' = tasks
      ]_vars

\* C27 witness: a task is running while the coordinator has already stored
\* the slide of another page and counted it.
C27_Witness ==
    /\ options.parallel_processing
    /\ Running # {}
    /\ results # <<>>
    /\ completed = 1

\* ------------------------------------------------------------------------
\* ppt_utils.create_slide_from_image: where the page image is placed
\* ------------------------------------------------------------------------
\* a - b, over the least common denominator
Minus(a, b) ==
    LET g == GCD(a[2], b[2])
    IN Frac(a[1] * (b[2] \div g) - b[1] * (a[2] \div g), (a[2] \div g) * b[2])

\* the pixel sizes of rendered pages
RenderedSizes ==
    {[width |-> w, height |-> h] : w, h \in {300, 400, 540, 960, 1200}}

\* the slide sizes convert() can pass, and a 4:3 slide
SlideSizes ==
    {DefaultSlide, <<Float(10), Frac(15, 2)>>, <<Float(4), Float(3)>>,
     <<Frac(15, 4), Frac(15, 2)>>}

\* an image always placed across the full width of the slide
create_slide_across_width(image, slide_width, slide_height) ==
    LET img_aspect == Frac(image.width, image.height)
        height == Over(slide_width, img_aspect)
    IN [layout |-> [width |-> slide_width, height |-> slide_height],
        text_boxes |-> <<>>, charts |-> <<>>, shapes |-> <<>>,
        images |-> <<[x |-> Float(0),
                      y |-> Over(Minus(slide_height, height), Float(2)),
                      width |-> slide_width, height |-> height]>>]

\* lines 949-985: the image is fitted to the width of the slide when it is
\* wider than the slide, to its height otherwise, and centred
create_slide_with_image(image, slide_width, slide_height) ==
    LET img_aspect == Frac(image.width, image.height)
        slide_aspect == Over(slide_width, slide_height)
        wider == Less(slide_aspect, img_aspect)
        width == IF wider THEN slide_width ELSE Times(slide_height, img_aspect)
        height == IF wider THEN Over(slide_width, img_aspect) ELSE slide_height
        x == IF wider THEN Float(0)
             ELSE Over(Minus(slide_width, width), Float(2))
        y == IF wider THEN Over(Minus(slide_height, height), Float(2))
             ELSE Float(0)
    IN [layout |-> [width |-> slide_width, height |-> slide_height],
        text_boxes |-> <<>>, charts |-> <<>>, shapes |-> <<>>,
        images |-> <<[x |-> x, y |-> y, width |-> width, height |-> height]>>]

FitInit ==
    /\ NoConversion
    /\ \E image \in RenderedSizes, slide \in SlideSizes :
        unit = CallOf("create_slide_from_image",
                      [image |-> image, slide_width |-> slide[1],
                       slide_height |-> slide[2]])

CreateSlideFromImage ==
    Return("create_slide_from_image",
           create_slide_with_image(unit.args.image, unit.args.slide_width,
                                   unit.args.slide_height))

FitSpec == FitInit /\ [][CreateSlideFromImage]_vars

Plus(a, b) ==
    LET g == GCD(a[2], b[2])
    IN Frac(a[1] * (b[2] \div g) + b[1] * (a[2] \div g), (a[2] \div g) * b[2])

AtMost(a, b) == ~ Less(b, a)

\* C28: the fallback slide holds one image and nothing else; the image is
\* the rendered page scaled by s = min(slide_w/img_w, slide_h/img_h), so it
\* has the page's aspect ratio; it lies inside the slide, spans the slide on
\* one axis and is centred on the other.
C28_OneImageScaledAndCentred ==
    (unit.fn = "create_slide_from_image" /\ unit.returned) =>
        LET img_w == Float(unit.args.image.width)
            img_h == Float(unit.args.image.height)
            slide_w == unit.args.slide_width
            slide_h == unit.args.slide_height
            s == Min(Over(slide_w, img_w), Over(slide_h, img_h))
            sc == unit.result
        IN /\ Len(sc.images) = 1
           /\ sc.text_boxes = <<>> /\ sc.charts = <<>> /\ sc.shapes = <<>>
           /\ LET im == sc.images[1]
              IN /\ im.width = Times(s, img_w)
                 /\ im.height = Times(s, img_h)
                 /\ Times(im.width, img_h) = Times(im.height, img_w)
                 /\ AtMost(Float(0), im.x)
                 /\ AtMost(Float(0), im.y)
                 /\ AtMost(Plus(im.x, im.width), slide_w)
                 /\ AtMost(Plus(im.y, im.height), slide_h)
                 /\ im.width = slide_w \/ im.height = slide_h
                 /\ Plus(Times(Float(2), im.x), im.width) = slide_w
                 /\ Plus(Times(Float(2), im.y), im.height) = slide_h

\* C28 witness: a 300 x 400 page image on the 13.333 x 7.5 slide is as high
\* as the slide, 5.625 wide, and starts 3.854 from the left edge.
C28_Witness ==
    /\ unit.fn = "create_slide_from_image"
    /\ unit.returned
    /\ unit.args.image = [width |-> 300, height |-> 400]
    /\ unit.args.slide_width = Frac(13333, 1000)
    /\ unit.result.images[1] =
        [x |-> Frac(3854, 1000), y |-> Float(0),
         width |-> Frac(5625, 1000), height |-> Frac(15, 2)]

\* ------------------------------------------------------------------------
\* group_text_blocks as a partition of its input
\* ------------------------------------------------------------------------
\* C29: the groups are non-empty; every span of the input is in exactly one
\* group, once, and no other span is; the groups one after the other are
\* the input sorted by (top, left); an empty input gives no groups.
C29_GroupsPartitionTheSortedInput ==
    (unit.fn = "group_text_blocks" /\ unit.returned) =>
        LET text_blocks == unit.args.text_blocks
            all == Flatten(unit.result)
        IN /\ \A g \in 1..Len(unit.result) : unit.result[g] # <<>>
           /\ Len(all) = Len(text_blocks)
           /\ \A b \in TextBlockPool :
                Occurrences(all, b) = Occurrences(text_blocks, b)
           /\ \A j, k \in 1..Len(all) : j < k => KeyAtMost(all[j], all[k])
           /\ all = sorted(text_blocks)
           /\ text_blocks = <<>> => unit.result = <<>>

\* C29 witness: three spans given out of order came back as two groups
\* that hold them in sorted order.
C29_Witness ==
    /\ unit.fn = "group_text_blocks"
    /\ unit.returned
    /\ Len(unit.args.text_blocks) = 3
    /\ Len(unit.result) = 2
    /\ Len(unit.result[1]) = 2
    /\ Flatten(unit.result) # unit.args.text_blocks
    /\ unit.args.text_blocks[3] = unit.result[1][1]

\* ------------------------------------------------------------------------
\* The two modes side by side
\* ------------------------------------------------------------------------
\* what _convert_pages_sequential makes of the k-th requested page
SequentialOutcome(k) ==
    ConvertOrFallback([options EXCEPT !.parallel_processing = FALSE,
                                      !.max_workers = 1],
                      doc[pages[k]], pages[k])

\* C30: in either mode, with any pool size and any order of completion, the
\* list the page loop returns holds for each requested page, in the order
\* requested, the slide sequential mode makes of it, fallback slides at the
\* same places; and the loop returns a list in one mode exactly for the
\* documents for which it does in the other (no page's error reaches it).
C30_BothModesReturnTheSameSlides ==
    /\ PageLoopReturned =>
        /\ Len(slides_content) = Len(pages)
        /\ \A k \in 1..Len(pages) :
            /\ ~ SequentialOutcome(k).raised
            /\ slides_content[k] = SequentialOutcome(k).slide
    /\ error = "PageError" =>
        \E k \in 1..Len(pages) : SequentialOutcome(k).raised

\* C30 witness: parallel mode returned the slides of pages 2 and 1, in that
\* order, page 1 having completed first; the first slide is the fallback
\* image of page 2, the second is not a fallback.
C30_Witness ==
    /\ options.parallel_processing
    /\ options.max_workers = 2
    /\ pc = "returned"
    /\ pages = <<2, 1>>
    /\ results[1].page = 1
    /\ slides_content[1].fallback
    /\ ~ slides_content[2].fallback

====
